---- MODULE Spec2Model ----
(***************************************************************************)
(* Model of scripts/subtitles_monitor.py: main() reads the original-names  *)
(* log into a bounded newest-first window, rebuilds the canonical library  *)
(* path of every entry, looks for missing subtitle sidecars and calls      *)
(* find_file_subtitles() for every missing language, counting the results. *)
(***************************************************************************)
EXTENDS Integers, Sequences, FiniteSets, TLC

\* ------------------------------------------------------------------ bounds
\* Longest original-names log of a run of the whole pipeline.
MaxLines == 2
\* Longest original-names log of the read loop taken alone.
MaxWindowLines == 4
\* Largest positive RESULTS_LIMIT tried.
MaxLimit == 2
\* ------------------------------------------------------- python's None
\* guess.get(key) of a missing key, and RESULTS_LIMIT = None.
Absent == -1

\* Python truthiness of an optional integer: None and 0 are false.
Truthy(x) == x # Absent /\ x # 0

\* ------------------------------------------------------------ settings
TEMP_PATH == "/tmp"
SUBTITLES_EXTENSION == ".srt"
LANGUAGE_EXTENSIONS == <<".he", ".en">>

\* language_extension.lstrip('.')
Lstrip(ext) == CASE ext = ".he" -> "he" [] ext = ".en" -> "en"

\* babelfish.Language.fromalpha2(code), named by its alpha3 code.
FromAlpha2(code) == CASE code = "he" -> "heb" [] code = "en" -> "eng"

\* '.' + language.alpha2, the suffix get_subtitle_path() gives a language.
DotAlpha2(language) == CASE language = "heb" -> ".he" [] language = "eng" -> ".en"

Languages == {"heb", "eng"}

\* PROVIDERS_MAP.get(language); {} stands for None (all providers).
PROVIDERS_MAP(language) ==
    CASE language = "heb" -> {"thewiz", "subscenter"}
      [] language = "eng" -> {}

\* -------------------------------------------------------------- strings
\* Titles are sequences of characters over a small alphabet.
IsLower(c) == c \in {"a", "b"}
IsUpper(c) == c \in {"A", "B"}
IsCased(c) == IsLower(c) \/ IsUpper(c)
Upper(c) == CASE c = "a" -> "A" [] c = "b" -> "B" [] OTHER -> c
Lower(c) == CASE c = "A" -> "a" [] c = "B" -> "b" [] OTHER -> c

\* str.title(): a cased character is upper-cased at the start of a word
\* (after an uncased character) and lower-cased inside a word.
TitleCase(s) ==
    [k \in 1..Len(s) |->
        LET prevCased == k > 1 /\ IsCased(s[k - 1])
        IN  IF ~IsCased(s[k]) THEN s[k]
            ELSE IF prevCased THEN Lower(s[k]) ELSE Upper(s[k])]

\* Decimal digits of a natural number, most significant first.
RECURSIVE Digits(_)
Digits(n) == IF n < 10 THEN <<n>> ELSE Append(Digits(n \div 10), n % 10)

\* '{:02}'.format(n): at least two digits, zero-padded on the left.
Pad2(n) == IF n < 10 THEN <<0, n>> ELSE Digits(n)

\* ------------------------------------------------ external collaborators
\* Raw original paths found in the log.
RawPaths == {"some.movie.2019.mp4", "Show.S02E13.mkv", "Show.S01E00.mkv",
             "2019.mp4", "S03E04.mkv"}

\* guessit(original_path): the guess of every raw path of the pool.
guessit(p) ==
    CASE p = "some.movie.2019.mp4" ->
           [hasTitle |-> TRUE, title |-> <<"a", "b", " ", "b", "A">>,
            season |-> Absent, episode |-> Absent, year |-> 2019]
      [] p = "Show.S02E13.mkv" ->
           [hasTitle |-> TRUE, title |-> <<"a", "B">>,
            season |-> 2, episode |-> 13, year |-> Absent]
      [] p = "Show.S01E00.mkv" ->
           [hasTitle |-> TRUE, title |-> <<"a", "B">>,
            season |-> 1, episode |-> 0, year |-> Absent]
      [] p = "2019.mp4" ->
           [hasTitle |-> FALSE, title |-> <<>>,
            season |-> Absent, episode |-> Absent, year |-> 2019]
      [] p = "S03E04.mkv" ->
           [hasTitle |-> FALSE, title |-> <<>>,
            season |-> 3, episode |-> 4, year |-> Absent]

\* os.path.splitext(original_path)[1]
Extension(p) ==
    CASE p \in {"some.movie.2019.mp4", "2019.mp4"} -> ".mp4"
      [] OTHER -> ".mkv"

\* format_show(title): the show-name translation of showsformatter.
format_show(title) == IF title = <<"a", "B">> THEN <<"A", "B">> ELSE title

\* ---------------------------------------------------- path reconstruction
\* A library path: the layout and the fields that fill it.
\*   episode: <root>/<tv>/<title>/Season <season>/<title> - S<season>E<episode><ext>
\*   movie:   <root>/<movies>/<title> (<year>)/<title> (<year>)<ext>
NoPath ==
    [layout |-> "none", title |-> <<>>, season |-> <<>>, episode |-> <<>>,
     year |-> Absent, ext |-> ""]

EpisodePath(title, season, episode, extension) ==
    [layout |-> "episode", title |-> title, season |-> Pad2(season),
     episode |-> Pad2(episode), year |-> Absent, ext |-> extension]

MoviePath(title, year, extension) ==
    [layout |-> "movie", title |-> title, season |-> <<>>, episode |-> <<>>,
     year |-> year, ext |-> extension]

\* if episode: (the truthiness test that picks the layout)
IsEpisodeGuess(guess) == Truthy(guess.episode)

\* The body of the for loop up to current_path: the canonical path of an
\* original path, or the exception the construction raises.
\*   title.title() of a missing title raises AttributeError;
\*   format_show(None) / os.path.join(.., None, ..) and '{:02}'.format(None)
\*   raise on a missing show title or season.
CurrentPath(original_path) ==
    LET guess == guessit(original_path)
        extension == Extension(original_path)
    IN  IF IsEpisodeGuess(guess)
        THEN IF ~guess.hasTitle \/ guess.season = Absent
             THEN [raised |-> TRUE, path |-> NoPath]
             ELSE [raised |-> FALSE,
                   path |-> EpisodePath(format_show(guess.title), guess.season,
                                        guess.episode, extension)]
        ELSE IF ~guess.hasTitle
             THEN [raised |-> TRUE, path |-> NoPath]
             ELSE [raised |-> FALSE,
                   path |-> MoviePath(TitleCase(guess.title), guess.year,
                                      extension)]

\* os.path.splitext(current_path)[0]
VideoBasePath(current_path) == [current_path EXCEPT !.ext = ""]

\* video_base_path + language_extension + SUBTITLES_EXTENSION
SidecarPath(current_path, language_extension) ==
    [dir |-> "library", base |-> VideoBasePath(current_path),
     lang |-> language_extension, ext |-> SUBTITLES_EXTENSION]

\* os.path.join(TEMP_PATH, os.path.basename(get_subtitle_path(video.name, language)))
SubtitlesPath(current_path, language) ==
    [dir |-> TEMP_PATH, base |-> VideoBasePath(current_path),
     lang |-> DotAlpha2(language), ext |-> SUBTITLES_EXTENSION]

\* ------------------------------------------------------------------ state
VARIABLES
    pc,                   \* where main() is
    run,                  \* "first" or "second" run of main()
    logExists,            \* os.path.isfile(config.ORIGINAL_NAMES_LOG)
    rootExists,           \* os.path.isdir(MEDIA_ROOT_PATH)
    logFile,              \* the lines of the original-names log, oldest first
    RESULTS_LIMIT,        \* the window size; Absent (None) and 0 mean no limit
    pos,                  \* number of lines readline() has returned
    original_paths_list,  \* the window, newest first
    i,                    \* index in original_paths_list of the entry in hand
    current_path,         \* canonical path of the entry in hand
    languages_list,       \* languages missing for the entry in hand
    j,                    \* index in languages_list of the next language
    subtitles_map,        \* alpha3 code -> number of results
    videos,               \* video files that exist under MEDIA_ROOT_PATH
    sidecars,             \* subtitle files that exist next to the videos
    critical,             \* number of 'Critical exception occurred!' records
    summary,              \* whether 'All done!' was logged in this run
    last,                 \* the latest call of find_file_subtitles()
    calls,                \* this run's calls of find_file_subtitles(), in order
    saved,                \* <<entry, language>> written in full by the first
                          \* of two runs
    observed,             \* per processed entry, what was on disk when examined
    first                 \* saved and subtitles_map of the first run

vars == <<pc, run, logExists, rootExists, logFile, RESULTS_LIMIT, pos,
          original_paths_list, i, current_path, languages_list, j,
          subtitles_map, videos, sidecars, critical,
          summary, last, calls, saved, observed, first>>

\* --------------------------------------------------------- the log window
\* A line of the log: the path and whether the line carries extra blanks
\* around it (the newline is always stripped).
RawLines == [text : RawPaths, blanks : BOOLEAN]

\* line.strip()
Strip(line) == line.text

\* InsertAndTrim with the trim taken one entry too early (>= for >).
InsertAndTrimEarly(list, original_path, limit) ==
    LET inserted == <<original_path>> \o list
    IN  IF Truthy(limit) /\ Len(inserted) >= limit
        THEN SubSeq(inserted, 1, Len(inserted) - 1)
        ELSE inserted

\* original_paths_list.insert(0, original_path), then, if RESULTS_LIMIT is
\* set and exceeded, original_paths_list.pop().
InsertAndTrim(list, original_path, limit) ==
    LET inserted == <<original_path>> \o list
    IN  IF Truthy(limit) /\ Len(inserted) > limit
        THEN SubSeq(inserted, 1, Len(inserted) - 1)
        ELSE inserted

\* -------------------------------------------------------- gap detection
\* os.path.isfile(video_base_path + language_extension + SUBTITLES_EXTENSION)
SidecarExists(path, language_extension, files) ==
    SidecarPath(path, language_extension) \in files

\* languages_list: the languages whose sidecar is missing, in the order of
\* LANGUAGE_EXTENSIONS.
RECURSIVE MissingFrom(_, _, _)
MissingFrom(path, files, k) ==
    IF k > Len(LANGUAGE_EXTENSIONS) THEN <<>>
    ELSE LET language_extension == LANGUAGE_EXTENSIONS[k]
             rest == MissingFrom(path, files, k + 1)
         IN  IF ~SidecarExists(path, language_extension, files)
             THEN <<FromAlpha2(Lstrip(language_extension))>> \o rest
             ELSE rest

\* MissingLanguages without the look at the disk: every language is missing.
MissingLanguagesUnchecked(path, files) ==
    [k \in 1..Len(LANGUAGE_EXTENSIONS) |->
        FromAlpha2(Lstrip(LANGUAGE_EXTENSIONS[k]))]

MissingLanguages(path, files) == MissingFrom(path, files, 1)

\* ------------------------------------------------- find_file_subtitles()
\* What the collaborators do during one call:
\*   video     Video.fromguess(): "ok" or "ValueError" (not a video file)
\*   provider  download_best_subtitles(): "empty_map" (no language key),
\*             "empty_list" (a key with no subtitle), "no_content" (a
\*             subtitle whose content is None), "content", or "raise" (an
\*             exception other than ValueError, before any file is opened)
\*   write     open(subtitles_path, 'wb').write(content): "ok" (no
\*             exception), "OSError", "ValueError" (caught by the outer
\*             except ValueError) or "raise" (any other exception)
\*   file      the file the call leaves at subtitles_path:
\*             "none"      open() raised;
\*             "partial"   open() created the file and not all of the
\*                         content reached it: write() raised, or write()
\*                         returned and the flush of the never-closed file
\*                         object failed, an error python discards;
\*             "complete"  the whole content reached the file
\*   upload    upload_file(): "ok"; "Exception" (an exception the
\*             'except Exception' clause catches); "BaseException" (one it
\*             does not: SystemExit, KeyboardInterrupt)
\*   appears   whether the uploaded subtitle shows up next to the video
Outcome(video, provider, write, file, upload, appears) ==
    [video |-> video, provider |-> provider, write |-> write, file |-> file,
     upload |-> upload, appears |-> appears]

Outcomes ==
    {Outcome("ValueError", "-", "-", "-", "-", FALSE)}
    \cup {Outcome("ok", p, "-", "-", "-", FALSE) :
            p \in {"empty_map", "empty_list", "no_content", "raise"}}
    \cup {Outcome("ok", "content", w, f, "-", FALSE) :
            w \in {"OSError", "ValueError", "raise"}, f \in {"none", "partial"}}
    \cup {Outcome("ok", "content", "ok", f, u, FALSE) :
            f \in {"partial", "complete"},
            u \in {"ok", "Exception", "BaseException"}}
    \cup {Outcome("ok", "content", "ok", f, "ok", TRUE) :
            f \in {"partial", "complete"}}

\* The result of a call: what it returns (<<>> for None, else <<path>>),
\* whether an exception leaves it, the files it left under TEMP_PATH,
\* whether the content was written in full, and the files it handed to
\* upload_file().
Returned(result, wrote, complete, uploaded) ==
    [result |-> result, raised |-> FALSE, wrote |-> wrote,
     complete |-> complete, uploaded |-> uploaded]

Raised(wrote, complete, uploaded) ==
    [result |-> <<>>, raised |-> TRUE, wrote |-> wrote,
     complete |-> complete, uploaded |-> uploaded]

\* find_file_subtitles without the test of subtitles_result.content.
find_file_subtitles_SavesEmpty(original_path, path, language, o) ==
    IF o.video = "ValueError" THEN Returned(<<>>, {}, FALSE, {})
    ELSE IF o.provider = "raise" THEN Raised({}, FALSE, {})
    ELSE IF o.provider \in {"empty_map", "empty_list"}
         THEN Returned(<<>>, {}, FALSE, {})
    ELSE LET subtitles_path == SubtitlesPath(path, language)
         IN  Returned(<<subtitles_path>>, {subtitles_path}, TRUE,
                      {subtitles_path})

find_file_subtitles(original_path, path, language, o) ==
    IF o.video = "ValueError" THEN Returned(<<>>, {}, FALSE, {})
    ELSE IF o.provider = "raise" THEN Raised({}, FALSE, {})
    ELSE IF o.provider \in {"empty_map", "empty_list"}
         THEN Returned(<<>>, {}, FALSE, {})
    ELSE IF o.provider = "no_content" THEN Returned(<<>>, {}, FALSE, {})
    ELSE LET subtitles_path == SubtitlesPath(path, language)
             left == IF o.file = "none" THEN {} ELSE {subtitles_path}
             complete == o.file = "complete"
         IN  CASE o.write = "OSError" ->
                    \* except OSError: logged; return subtitles_path
                    Returned(<<subtitles_path>>, left, FALSE, {})
               [] o.write = "ValueError" ->
                    \* except ValueError: 'Not a video file', returns None
                    Returned(<<>>, left, FALSE, {})
               [] o.write = "raise" ->
                    Raised(left, FALSE, {})
               [] o.write = "ok" ->
                    IF o.upload = "BaseException"
                    THEN Raised(left, complete, {subtitles_path})
                    \* "ok", or "Exception": logged; return subtitles_path
                    ELSE Returned(<<subtitles_path>>, left, complete,
                                  {subtitles_path})

\* What a successful upload leaves under MEDIA_ROOT_PATH.
Published(path, language, o) ==
    IF o.video = "ok" /\ o.provider = "content" /\ o.write = "ok"
       /\ o.upload = "ok" /\ o.appears
    THEN {SidecarPath(path, DotAlpha2(language))}
    ELSE {}

\* ------------------------------------------------------------------ Init
\* Every log of at most n lines drawn from the given lines.
LogsUpTo(n, lines) == UNION {[1..k -> lines] : k \in 0..n}

\* The values of RESULTS_LIMIT tried: None, 0 and the positive limits.
Limits == {Absent} \cup (0..MaxLimit)

\* The canonical paths of the entries of a log.
LibraryPaths(log) ==
    {CurrentPath(Strip(log[k])).path :
        k \in {n \in 1..Len(log) : ~CurrentPath(Strip(log[n])).raised}}

SidecarsOf(paths) ==
    {SidecarPath(v, LANGUAGE_EXTENSIONS[k]) :
        v \in paths, k \in 1..Len(LANGUAGE_EXTENSIONS)}

\* No call of find_file_subtitles() yet.
NoCall ==
    [idx |-> 0, language |-> "", outcome |-> Outcome("-", "-", "-", "-", "-", FALSE),
     result |-> <<>>, raised |-> FALSE, wrote |-> {}, complete |-> FALSE,
     uploaded |-> {},
     before |-> 0]

\* subtitles_map = defaultdict(int)
EmptyMap == [l \in Languages |-> 0]

NoFirstRun == [saved |-> {}, counts |-> EmptyMap]

\* The state main() starts from, given the logs and the limits to try.
InitWith(logs, limits) ==
    /\ pc = "start"
    /\ run = "first"
    /\ logExists \in BOOLEAN
    /\ rootExists \in BOOLEAN
    /\ logFile \in (IF logExists THEN logs ELSE {<<>>})
    /\ RESULTS_LIMIT \in limits
    /\ videos \in (IF rootExists THEN SUBSET LibraryPaths(logFile) ELSE {{}})
    /\ sidecars \in SUBSET SidecarsOf(videos)
    /\ pos = 0
    /\ original_paths_list = <<>>
    /\ i = 0
    /\ current_path = NoPath
    /\ languages_list = <<>>
    /\ j = 0
    /\ subtitles_map = EmptyMap
    /\ critical = 0
    /\ summary = FALSE
    /\ last = NoCall
    /\ calls = <<>>
    /\ saved = {}
    /\ observed = <<>>
    /\ first = NoFirstRun

\* A run of the whole pipeline: short logs of clean lines, read without a
\* limit or through the smallest window.
Init == InitWith(LogsUpTo(MaxLines, {l \in RawLines : ~l.blanks}), {Absent, 1})

\* --------------------------------------------------------------- main()
\* VerifyPaths without the check of the media root.
VerifyPathsLogOnly(isLog, isRoot) ==
    IF ~isLog THEN "FileNotFoundError" ELSE "ok"

\* Verify paths: the exception main() raises before its try block, or "ok".
VerifyPaths(isLog, isRoot) ==
    IF ~isLog THEN "FileNotFoundError"
    ELSE IF ~isRoot THEN "NotADirectoryError"
    ELSE "ok"

\* os.path.isfile(current_path)
VideoExists(path, files) == path \in files

\* except: logger.exception('Critical exception occurred!'); raise
Critical ==
    /\ critical' = critical + 1
    /\ pc' = "crashed"

\* raise FileNotFoundError / NotADirectoryError
Abort ==
    /\ pc = "start"
    /\ VerifyPaths(logExists, rootExists) # "ok"
    /\ pc' = VerifyPaths(logExists, rootExists)
    /\ UNCHANGED <<run, logExists, rootExists, logFile, RESULTS_LIMIT, pos,
                   original_paths_list, i, current_path, languages_list, j,
                   subtitles_map, videos, sidecars, critical, summary, last, calls, saved, observed, first>>

\* original_paths_list = []; subtitles_map = defaultdict(int); open the log
Start ==
    /\ pc = "start"
    /\ VerifyPaths(logExists, rootExists) = "ok"
    /\ pc' = "read"
    /\ original_paths_list' = <<>>
    /\ subtitles_map' = EmptyMap
    /\ pos' = 0
    /\ UNCHANGED <<run, logExists, rootExists, logFile, RESULTS_LIMIT, i,
                   current_path, languages_list, j, videos, sidecars, critical, summary, last, calls, saved, observed,
                   first>>

\* One turn of the while loop: a line is read, inserted and the list trimmed.
ReadLine ==
    /\ pc = "read"
    /\ pos < Len(logFile)
    /\ original_paths_list' =
           InsertAndTrim(original_paths_list, Strip(logFile[pos + 1]),
                         RESULTS_LIMIT)
    /\ pos' = pos + 1
    /\ UNCHANGED <<pc, run, logExists, rootExists, logFile, RESULTS_LIMIT, i,
                   current_path, languages_list, j, subtitles_map, videos,
                   sidecars, critical, summary, last, calls,
                   saved, observed, first>>

\* readline() returns '': the while loop ends and the for loop begins.
ReadEOF ==
    /\ pc = "read"
    /\ pos = Len(logFile)
    /\ pc' = "loop"
    /\ i' = 1
    /\ UNCHANGED <<run, logExists, rootExists, logFile, RESULTS_LIMIT, pos,
                   original_paths_list, current_path, languages_list, j,
                   subtitles_map, videos, sidecars, critical, summary, last, calls, saved, observed, first>>

\* Building current_path raises: the bare except logs and re-raises.
EntryRaises ==
    /\ pc = "loop"
    /\ i <= Len(original_paths_list)
    /\ CurrentPath(original_paths_list[i]).raised
    /\ Critical
    /\ UNCHANGED <<run, logExists, rootExists, logFile, RESULTS_LIMIT, pos,
                   original_paths_list, i, current_path, languages_list, j,
                   subtitles_map, videos, sidecars, summary,
                   last, calls, saved, observed, first>>

\* The video is not on disk: 'Couldn't find', next entry.
EntryNotFound ==
    /\ pc = "loop"
    /\ i <= Len(original_paths_list)
    /\ ~CurrentPath(original_paths_list[i]).raised
    /\ LET path == CurrentPath(original_paths_list[i]).path
       IN  /\ ~VideoExists(path, videos)
           /\ current_path' = path
           /\ observed' = Append(observed, [video |-> FALSE, missing |-> {}])
    /\ i' = i + 1
    /\ UNCHANGED <<pc, run, logExists, rootExists, logFile, RESULTS_LIMIT, pos,
                   original_paths_list, languages_list, j, subtitles_map,
                   videos, sidecars, critical, summary, last,
                   calls, saved, first>>

\* The video is on disk: languages_list is built from the missing sidecars.
EntryFound ==
    /\ pc = "loop"
    /\ i <= Len(original_paths_list)
    /\ ~CurrentPath(original_paths_list[i]).raised
    /\ LET path == CurrentPath(original_paths_list[i]).path
       IN  /\ VideoExists(path, videos)
           /\ current_path' = path
           /\ languages_list' = MissingLanguages(path, sidecars)
           /\ observed' =
                  Append(observed,
                         [video |-> TRUE,
                          missing |-> {l \in Languages :
                              SidecarPath(path, DotAlpha2(l)) \notin sidecars}])
    /\ j' = 1
    /\ pc' = "search"
    /\ UNCHANGED <<run, logExists, rootExists, logFile, RESULTS_LIMIT, pos,
                   original_paths_list, i, subtitles_map, videos, sidecars,
                   critical, summary, last, calls, saved,
                   first>>

\* One turn of 'for language in languages_list': the call and the count.
\* With track, the turn also records whether the content was written in
\* full.
Acquire(track) ==
    /\ pc = "search"
    /\ j <= Len(languages_list)
    /\ \E o \in Outcomes :
         LET language == languages_list[j]
             r == find_file_subtitles(original_paths_list[i], current_path,
                                      language, o)
         IN  /\ last' = [idx |-> i, language |-> language, outcome |-> o,
                         result |-> r.result, raised |-> r.raised,
                         wrote |-> r.wrote, complete |-> r.complete,
                         uploaded |-> r.uploaded,
                         before |-> subtitles_map[language]]
             /\ calls' = Append(calls, [idx |-> i, language |-> language])
             /\ saved' = IF track /\ r.complete
                         THEN saved \cup {<<i, language>>}
                         ELSE saved
             /\ sidecars' = sidecars \cup Published(current_path, language, o)
             /\ IF r.raised
                THEN /\ Critical
                     /\ UNCHANGED <<subtitles_map, j>>
                ELSE /\ subtitles_map' =
                            IF r.result # <<>>
                            THEN [subtitles_map EXCEPT ![language] = @ + 1]
                            ELSE subtitles_map
                     /\ j' = j + 1
                     /\ UNCHANGED <<pc, critical>>
    /\ UNCHANGED <<run, logExists, rootExists, logFile, RESULTS_LIMIT, pos,
                   original_paths_list, i, current_path, languages_list,
                   videos, summary, observed, first>>

Search == Acquire(FALSE)

\* languages_list is exhausted: next entry.
EntryDone ==
    /\ pc = "search"
    /\ j > Len(languages_list)
    /\ pc' = "loop"
    /\ i' = i + 1
    /\ UNCHANGED <<run, logExists, rootExists, logFile, RESULTS_LIMIT, pos,
                   original_paths_list, current_path, languages_list, j,
                   subtitles_map, videos, sidecars, critical, summary, last, calls, saved, observed, first>>

\* 'All done! The results are: ...'
Summary ==
    /\ pc = "loop"
    /\ i > Len(original_paths_list)
    /\ pc' = "done"
    /\ summary' = TRUE
    /\ UNCHANGED <<run, logExists, rootExists, logFile, RESULTS_LIMIT, pos,
                   original_paths_list, i, current_path, languages_list, j,
                   subtitles_map, videos, sidecars, critical, last, calls, saved, observed, first>>

Next ==
    \/ Abort
    \/ Start
    \/ ReadLine
    \/ ReadEOF
    \/ EntryRaises
    \/ EntryNotFound
    \/ EntryFound
    \/ Search
    \/ EntryDone
    \/ Summary

Spec == Init /\ [][Next]_vars

\* ---------------------------------------------------- the read loop alone
\* Logs of up to MaxWindowLines lines, with and without blanks, over two
\* paths, read under every limit; nothing is on disk to process.
WindowLines ==
    {l \in RawLines : l.text \in {"some.movie.2019.mp4", "Show.S02E13.mkv"}}

InitWindow ==
    /\ InitWith(LogsUpTo(MaxWindowLines, WindowLines), Limits)
    /\ logExists
    /\ rootExists
    /\ videos = {}

NextWindow ==
    \/ Start
    \/ ReadLine
    \/ ReadEOF

SpecWindow == InitWindow /\ [][NextWindow]_vars

\* ------------------------------------------------------------- two runs
\* main() is started again over the same log and the filesystem the first
\* run left behind.
Rerun ==
    /\ pc = "done"
    /\ run = "first"
    /\ run' = "second"
    /\ first' = [saved |-> saved, counts |-> subtitles_map]
    /\ pc' = "start"
    /\ pos' = 0
    /\ original_paths_list' = <<>>
    /\ i' = 0
    /\ current_path' = NoPath
    /\ languages_list' = <<>>
    /\ j' = 0
    /\ subtitles_map' = EmptyMap
    /\ summary' = FALSE
    /\ last' = NoCall
    /\ calls' = <<>>
    /\ saved' = {}
    /\ observed' = <<>>
    /\ UNCHANGED <<logExists, rootExists, logFile, RESULTS_LIMIT, videos,
                   sidecars, critical>>

\* The first run records what it wrote in full.
SearchTracked == Acquire(run = "first")

\* Both runs pass the path checks and read the whole log; the library holds
\* no subtitles before the first run.
InitTwice ==
    /\ Init
    /\ logExists
    /\ rootExists
    /\ RESULTS_LIMIT = Absent
    /\ sidecars = {}

NextTwice ==
    \/ Start
    \/ ReadLine
    \/ ReadEOF
    \/ EntryRaises
    \/ EntryNotFound
    \/ EntryFound
    \/ SearchTracked
    \/ EntryDone
    \/ Summary
    \/ Rerun

SpecTwice == InitTwice /\ [][NextTwice]_vars

\* ================================================================ claims
Min(a, b) == IF a < b THEN a ELSE b

\* The newest min(n, limit) of the first n lines, newest first; all n of
\* them when the limit is unset (None or 0).
NewestFirst(n, limit) ==
    LET m == IF limit > 0 THEN Min(n, limit) ELSE n
    IN  [k \in 1..m |-> Strip(logFile[n + 1 - k])]

\* C1: after the read loop the list is exactly the last min(N, L) lines of
\* the log, newest first (all N lines when the limit is None or 0); after
\* every insertion step the list holds the newest lines read so far and
\* never more than L of them.
C1_LogWindow ==
    /\ pc = "loop" =>
         original_paths_list = NewestFirst(Len(logFile), RESULTS_LIMIT)
    /\ pc = "read" =>
         /\ original_paths_list = NewestFirst(pos, RESULTS_LIMIT)
         /\ RESULTS_LIMIT > 0 => Len(original_paths_list) <= RESULTS_LIMIT

\* A log of four lines read through a window of two: lines were dropped.
C1_Witness ==
    /\ pc = "loop"
    /\ RESULTS_LIMIT = 2
    /\ Len(logFile) = 4
    /\ logFile[4].blanks
    /\ logFile[3].text # logFile[4].text
    /\ original_paths_list = <<logFile[4].text, logFile[3].text>>

\* C2: when the write of the content to TEMP_PATH fails with OSError,
\* find_file_subtitles returns nothing and the count of the language is
\* not incremented.
C2_WriteFailureYieldsNothing ==
    (last.idx > 0 /\ last.outcome.write = "OSError") =>
        /\ last.result = <<>>
        /\ subtitles_map[last.language] = last.before

\* C3: an entry whose guess has no title is skipped without raising: the
\* run never stops with an exception at such an entry.
C3_MissingTitleSkipped ==
    (pc = "crashed" /\ ~last.raised) =>
        guessit(original_paths_list[i]).hasTitle

\* C4: in a second run over the same log, no <<entry, language>> whose
\* subtitle was saved in the first run is searched again, and for every
\* language saved in the first run the second run's count is at most the
\* first run's.
C4_NoRedundantRedownload ==
    run = "second" =>
        /\ \A n \in 1..Len(calls) :
             <<calls[n].idx, calls[n].language>> \notin first.saved
        /\ pc = "done" =>
             \A l \in Languages :
                (\E e \in first.saved : e[2] = l) =>
                    subtitles_map[l] <= first.counts[l]

\* Entries whose processing is complete.
Processed == {k \in 1..Len(observed) : k < i \/ pc = "done"}

Called(k, l) == \E n \in 1..Len(calls) : calls[n] = [idx |-> k, language |-> l]

\* C5: for every processed entry and language, find_file_subtitles is
\* called iff the video exists and the language's sidecar does not; calls
\* for one entry come in the order heb, eng, at most once each; the count
\* of a language never exceeds the number of calls for it.
C5_GapDrivesAcquisition ==
    /\ \A k \in Processed : \A l \in Languages :
         Called(k, l) <=> (observed[k].video /\ l \in observed[k].missing)
    /\ \A a, b \in 1..Len(calls) :
         (a < b /\ calls[a].idx = calls[b].idx) =>
            (calls[a].language = "heb" /\ calls[b].language = "eng")
    /\ \A l \in Languages :
         subtitles_map[l] <=
            Cardinality({n \in 1..Len(calls) : calls[n].language = l})

\* A finished run over an entry with no sidecar, searched twice, and an
\* entry with both sidecars, not searched.
C5_Witness ==
    /\ pc = "done"
    /\ Len(observed) = 2
    /\ observed[1].video /\ observed[1].missing = Languages
    /\ observed[2].video /\ observed[2].missing = {}
    /\ calls = <<[idx |-> 1, language |-> "heb"], [idx |-> 1, language |-> "eng"]>>

\* C6: with the log file or the media root missing, main() stops with the
\* error before reading the log, processing an entry, calling the provider
\* or the uploader, and without a summary.
C6_FatalConfiguration ==
    (~logExists \/ ~rootExists) =>
        /\ pc \in {"start", "FileNotFoundError", "NotADirectoryError"}
        /\ pc = "FileNotFoundError" => ~logExists
        /\ pc = "NotADirectoryError" => (logExists /\ ~rootExists)
        /\ pos = 0
        /\ original_paths_list = <<>>
        /\ observed = <<>>
        /\ calls = <<>>
        /\ last = NoCall
        /\ critical = 0
        /\ ~summary

\* The log is there with entries in it, the media root is not.
C6_Witness ==
    /\ pc = "NotADirectoryError"
    /\ Len(logFile) > 0

\* C7: when the content was written and upload_file() raises any
\* exception, the exception does not leave find_file_subtitles: the saved path is
\* returned, the language's count goes up by exactly one, and the loop
\* goes on to the next language.
C7_UploadFailure ==
    (last.idx > 0 /\ last.outcome.upload \in {"Exception", "BaseException"}) =>
        /\ ~last.raised
        /\ last.result # <<>>
        /\ last.wrote = {last.result[1]}
        /\ subtitles_map[last.language] = last.before + 1
        /\ pc = "crashed" => last.idx < i
        /\ (pc = "search" /\ last.idx = i) =>
              /\ last.result[1] = SubtitlesPath(current_path, last.language)
              /\ j > 1
              /\ languages_list[j - 1] = last.language

\* Outcomes that yield nothing: no match, a match without content, not a
\* video file.
NonCounting(o) ==
    \/ o.video = "ValueError"
    \/ o.provider \in {"empty_map", "empty_list", "no_content"}

\* C8: when the provider returns no match or a match without content, or
\* the item is not a video file, find_file_subtitles returns nothing,
\* writes and uploads nothing, the count is unchanged and no exception
\* stops the run there.
C8_NonCountingOutcomes ==
    (last.idx > 0 /\ NonCounting(last.outcome)) =>
        /\ last.result = <<>>
        /\ ~last.raised
        /\ last.wrote = {}
        /\ last.uploaded = {}
        /\ subtitles_map[last.language] = last.before
        /\ pc = "crashed" => last.idx < i

\* A match without content was the last call of a run that reached the
\* summary with nothing counted and nothing written.
C8_Witness ==
    /\ pc = "done"
    /\ last.outcome.provider = "no_content"
    /\ Len(calls) = 2
    /\ \A l \in Languages : subtitles_map[l] = 0
    /\ last.wrote = {}

\* Failures find_file_subtitles anticipates.
Anticipated(o) ==
    \/ NonCounting(o)
    \/ o.write = "OSError"
    \/ o.upload \in {"Exception", "BaseException"}

\* C9: an exception stops the loop only if it is unanticipated; it is
\* logged once and re-raised: nothing runs after it, no later entry is
\* processed and no summary is logged; anticipated failures never stop
\* the loop.
C9_UnexpectedError ==
    /\ critical > 0 => pc = "crashed"
    /\ pc = "crashed" =>
         /\ critical = 1
         /\ ~summary
         /\ ~ENABLED Next
         /\ Len(observed) <= i
         /\ \A n \in 1..Len(calls) : calls[n].idx <= i
         /\ \/ /\ last.raised
               /\ last.idx = i
               /\ last.outcome.provider = "raise" \/ last.outcome.write = "raise"
            \/ ~last.raised /\ CurrentPath(original_paths_list[i]).raised
    /\ (last.idx > 0 /\ Anticipated(last.outcome)) => ~last.raised

\* The entry current_path was built from.
PathOwner == IF pc = "search" THEN i ELSE i - 1

\* C10: the episode layout is used iff the guess holds an episode number,
\* 0 included; otherwise the movie layout.
C10_LayoutByEpisodePresence ==
    (pc \in {"search", "loop", "done"} /\ PathOwner >= 1) =>
        LET guess == guessit(original_paths_list[PathOwner])
        IN  /\ current_path.layout = "episode" <=> guess.episode # Absent
            /\ current_path.layout = "movie" <=> guess.episode = Absent

====
